---------------------------- MODULE Spec2Model ----------------------------
(***************************************************************************)
(* Model of src/js/hotkey.js: the HotKey class of the player.  It listens  *)
(* for keydown events on the document with two listeners (doHotKey and     *)
(* cancelFullScreen) and turns them into calls on the player.              *)
(*                                                                         *)
(* Units.  Times (currentTime, duration, seek targets) are counted in      *)
(* ticks of 1/20 second, so that 0.5 s and a tenth of a duration are       *)
(* whole numbers.  Rates (playbackRate) are counted in thousandths, so     *)
(* that a rate which is not a whole number of hundredths can be written.   *)
(* The volume is counted in tenths.  duration = 0 is the unknown (falsy)   *)
(* duration the code tests with `if (video.duration)`.                     *)
(***************************************************************************)
EXTENDS Integers, Sequences, FiniteSets

VARIABLES
    player,                 \* this.player: focus, options, video, fullScreen, volume
    activeElement,          \* document.activeElement: tagName, contenteditable
    listeners,              \* the keydown listeners registered on document
    destroyed,              \* destroy() has returned at least once
    hotkeyAtConstruction,   \* player.options.hotkey as the constructor read it
    dispatch,               \* the keydown being dispatched and the calls it made
    pendingBlobs,           \* the canvas.toBlob callbacks not run yet, with what they closed over
    downloads               \* the links the callbacks have clicked, oldest first

vars ==
    <<player, activeElement, listeners, destroyed, hotkeyAtConstruction, dispatch,
      pendingBlobs, downloads>>

-----------------------------------------------------------------------------
(* Program constants *)

KeySpace == 32
KeyLeft == 37
KeyUp == 38
KeyRight == 39
KeyDown == 40
KeyEnter == 13
KeyEscape == 27
LocationNumpad == 3

\* 5 seconds, in ticks of 1/20 s
SeekStep == 100
\* 1 second, in ticks of 1/20 s
OneSecond == 20
\* 0.05, 0.25, 2.0 and 1.0 in thousandths
SpeedStep == 50
MinRate == 250
MaxRate == 2000
NormalRate == 1000
\* 0.1 in tenths
VolumeStep == 1

-----------------------------------------------------------------------------
(* Keyboard events *)

Min(a, b) == IF a < b THEN a ELSE b
Max(a, b) == IF a > b THEN a ELSE b

\* The keys of the model: the key label and the keyCode the browser gives with it.
KeyCodes ==
    [k \in {" ", "ArrowLeft", "ArrowUp", "ArrowRight", "ArrowDown", "Enter",
            "Escape", "Shift", "a", "A", "d", "f", "w", "m", "s", "S", "x", "X",
            "z", "q", "+", "=", "-",
            "0", "1", "2", "3", "4", "5", "6", "7", "8", "9"} |->
        CASE k = " " -> 32
          [] k = "ArrowLeft" -> 37
          [] k = "ArrowUp" -> 38
          [] k = "ArrowRight" -> 39
          [] k = "ArrowDown" -> 40
          [] k = "Enter" -> 13
          [] k = "Escape" -> 27
          [] k = "Shift" -> 16
          [] k \in {"a", "A"} -> 65
          [] k = "d" -> 68
          [] k = "f" -> 70
          [] k = "w" -> 87
          [] k = "m" -> 77
          [] k \in {"s", "S"} -> 83
          [] k \in {"x", "X"} -> 88
          [] k = "z" -> 90
          [] k = "q" -> 81
          [] k \in {"+", "="} -> 187
          [] k = "-" -> 189
          [] k = "0" -> 48
          [] k = "1" -> 49
          [] k = "2" -> 50
          [] k = "3" -> 51
          [] k = "4" -> 52
          [] k = "5" -> 53
          [] k = "6" -> 54
          [] k = "7" -> 55
          [] k = "8" -> 56
          [] k = "9" -> 57]

Keys == DOMAIN KeyCodes

\* event.location: 0 (standard) for every key, and also 3 (numpad) for Enter.
Locations(k) == IF k = "Enter" THEN {0, LocationNumpad} ELSE {0}

KeyEvents ==
    UNION { { [key |-> k, keyCode |-> KeyCodes[k], location |-> l,
               ctrlKey |-> c, shiftKey |-> s] :
                 l \in Locations(k), c \in BOOLEAN, s \in BOOLEAN } : k \in Keys }

\* String.prototype.toLowerCase on a key label.
toLowerCase(key) ==
    CASE key = "A" -> "a"
      [] key = "S" -> "s"
      [] key = "X" -> "x"
      [] key = "ArrowLeft" -> "arrowleft"
      [] key = "ArrowUp" -> "arrowup"
      [] key = "ArrowRight" -> "arrowright"
      [] key = "ArrowDown" -> "arrowdown"
      [] key = "Enter" -> "enter"
      [] key = "Escape" -> "escape"
      [] key = "Shift" -> "shift"
      [] OTHER -> key

\* String.prototype.toUpperCase on a tag name.
toUpperCase(tag) ==
    CASE tag = "input" -> "INPUT"
      [] tag = "textarea" -> "TEXTAREA"
      [] tag = "div" -> "DIV"
      [] OTHER -> tag

\* parseInt on a digit key.
parseInt(lowerKey) ==
    CASE lowerKey = "0" -> 0
      [] lowerKey = "1" -> 1
      [] lowerKey = "2" -> 2
      [] lowerKey = "3" -> 3
      [] lowerKey = "4" -> 4
      [] lowerKey = "5" -> 5
      [] lowerKey = "6" -> 6
      [] lowerKey = "7" -> 7
      [] lowerKey = "8" -> 8
      [] lowerKey = "9" -> 9

Digits == {"0", "1", "2", "3", "4", "5", "6", "7", "8", "9"}

-----------------------------------------------------------------------------
(* Calls.  A handler is modelled by the sequence of calls it makes, in     *)
(* order: on the event (preventDefault), on the player (toggle, seek,      *)
(* volume, speed, notice), on player.video (muted), on player.fullScreen   *)
(* (request, cancel), on player.controller (setAutoHide), on itself        *)
(* (takeScreenshot) and on the canvas (toBlob).                            *)

Call(op, str, num) == [op |-> op, str |-> str, num |-> num]

preventDefault == Call("preventDefault", "", 0)

\* Math.round(x * 100) / 100 on a rate in thousandths: halves round up.
RoundToHundredths(x) == ((x + 5) \div 10) * 10

\* Mutant: a rate that would pass a limit comes back from it by the step.
newRate_bounce(playbackRate, delta) ==
    LET sum == playbackRate + delta
    IN  IF sum > MaxRate THEN RoundToHundredths(MaxRate - delta)
        ELSE IF sum < MinRate THEN RoundToHundredths(MinRate - delta)
        ELSE RoundToHundredths(sum)

\* Mutant: the rate clamped but not rounded.
newRate_unrounded(playbackRate, delta) ==
    Max(MinRate, Min(MaxRate, playbackRate + delta))

newRate(playbackRate, delta) ==
    LET sum == playbackRate + delta
        clamped == Max(MinRate, Min(MaxRate, sum))
    IN  RoundToHundredths(clamped)

changeSpeed(p, delta) == << Call("speed", "", newRate(p.video.playbackRate, delta)) >>

resetSpeed == << Call("speed", "", NormalRate) >>

seekToPercent(p, percent) ==
    IF p.video.duration # 0
    THEN << Call("seek", "true", (percent * p.video.duration) \div 100),
            Call("notice", "Seek", percent) >>
    ELSE << >>

\* HH-MM-SS of a time: the three two-digit fields as one number HHMMSS.
Timestamp(time) ==
    LET h == time \div (3600 * OneSecond)
        m == (time % (3600 * OneSecond)) \div (60 * OneSecond)
        s == (time % (60 * OneSecond)) \div OneSecond
    IN  h * 10000 + m * 100 + s

takeScreenshot(p) ==
    << Call("toBlob", "", Timestamp(p.video.currentTime)),
       Call("notice", "Screenshot", Timestamp(p.video.currentTime)) >>

\* Mutant: the file name built when the callback runs, from the time it is then.
toBlobCallback_lateTimestamp(closure, p) ==
    [download |-> Timestamp(p.video.currentTime), requestedAt |-> closure.time]

\* The callback given to canvas.toBlob: a link with download = screenshot_<timestamp>.png,
\* clicked.  `timestamp` is the constant of the enclosing takeScreenshot call; the
\* `time` of that call is carried along as requestedAt.
toBlobCallback(closure, p) ==
    [download |-> closure.timestamp, requestedAt |-> closure.time]

-----------------------------------------------------------------------------
(* doHotKey: the guard, the modifier rules, the keyCode switch *)

\* The test `tag === 'INPUT' || tag === 'TEXTAREA' || editable === '' || editable === 'true'`;
\* getAttribute gives null (here "null") for an element without the attribute.
\* Mutant: the tag compared as it is, without toUpperCase.
isTyping_caseSensitive(ae) ==
    LET tag == ae.tagName
        editable == ae.contenteditable
    IN  tag = "INPUT" \/ tag = "TEXTAREA" \/ editable = "" \/ editable = "true"

isTyping(ae) ==
    LET tag == toUpperCase(ae.tagName)
        editable == ae.contenteditable
    IN  tag = "INPUT" \/ tag = "TEXTAREA" \/ editable = "" \/ editable = "true"

\* The four `if (...) { ...; return; }` rules ahead of the switch; << >> when none matches.
\* Mutant: the reset rule taken with either modifier instead of both.
modifierRules_ctrlOrShift(e, p) ==
    IF e.ctrlKey /\ toLowerCase(e.key) = "x"
    THEN <<preventDefault>> \o changeSpeed(p, SpeedStep)
    ELSE IF e.ctrlKey /\ toLowerCase(e.key) = "z"
    THEN <<preventDefault>> \o changeSpeed(p, 0 - SpeedStep)
    ELSE IF e.shiftKey /\ toLowerCase(e.key) = "s"
    THEN <<preventDefault, Call("takeScreenshot", "", 0)>> \o takeScreenshot(p)
    ELSE IF e.ctrlKey \/ e.shiftKey
    THEN <<preventDefault>> \o resetSpeed
    ELSE << >>

\* Mutant: the Ctrl+Shift rule tested ahead of the Ctrl+X and Ctrl+Z rules.
modifierRules_resetFirst(e, p) ==
    IF e.ctrlKey /\ e.shiftKey
    THEN <<preventDefault>> \o resetSpeed
    ELSE IF e.ctrlKey /\ toLowerCase(e.key) = "x"
    THEN <<preventDefault>> \o changeSpeed(p, SpeedStep)
    ELSE IF e.ctrlKey /\ toLowerCase(e.key) = "z"
    THEN <<preventDefault>> \o changeSpeed(p, 0 - SpeedStep)
    ELSE IF e.shiftKey /\ toLowerCase(e.key) = "s"
    THEN <<preventDefault, Call("takeScreenshot", "", 0)>> \o takeScreenshot(p)
    ELSE << >>

modifierRules(e, p) ==
    IF e.ctrlKey /\ toLowerCase(e.key) = "x"
    THEN <<preventDefault>> \o changeSpeed(p, SpeedStep)
    ELSE IF e.ctrlKey /\ toLowerCase(e.key) = "z"
    THEN <<preventDefault>> \o changeSpeed(p, 0 - SpeedStep)
    ELSE IF e.ctrlKey /\ e.shiftKey
    THEN <<preventDefault>> \o resetSpeed
    ELSE IF e.shiftKey /\ toLowerCase(e.key) = "s"
    THEN <<preventDefault, Call("takeScreenshot", "", 0)>> \o takeScreenshot(p)
    ELSE << >>

caseSpace == << preventDefault, Call("toggle", "", 0) >>

caseLeft(p) ==
    IF p.options.live
    THEN << preventDefault >>
    ELSE << preventDefault, Call("seek", "", p.video.currentTime - SeekStep),
            Call("setAutoHide", "", 0) >>

\* Mutant: the Right case without its closing break, running on into the Up case.
caseRight_fallthrough(p) ==
    IF p.options.live
    THEN << preventDefault >>
    ELSE << preventDefault, Call("seek", "", p.video.currentTime + SeekStep),
            Call("setAutoHide", "", 0),
            preventDefault, Call("volume", "", p.volume + VolumeStep) >>

caseRight(p) ==
    IF p.options.live
    THEN << preventDefault >>
    ELSE << preventDefault, Call("seek", "", p.video.currentTime + SeekStep),
            Call("setAutoHide", "", 0) >>

caseUp(p) == << preventDefault, Call("volume", "", p.volume + VolumeStep) >>

caseDown(p) == << preventDefault, Call("volume", "", p.volume - VolumeStep) >>

\* Mutant: Enter tested for the standard location instead of the numpad.
caseEnter_standardLocation(e) ==
    IF e.location = 0
    THEN <<preventDefault>> \o resetSpeed
    ELSE << >>

\* Mutant: Enter resets the speed wherever it comes from.
caseEnter_anyLocation(e) == <<preventDefault>> \o resetSpeed

caseEnter(e) ==
    IF e.location = LocationNumpad
    THEN <<preventDefault>> \o resetSpeed
    ELSE << >>

\* Mutant: 'a' seeks back 5 s without the test on currentTime, as Left does.
caseA_unclamped(p) ==
    IF p.options.live
    THEN << preventDefault >>
    ELSE << preventDefault, Call("seek", "", p.video.currentTime - SeekStep),
            Call("setAutoHide", "", 0) >>

caseA(p) ==
    IF p.options.live
    THEN << preventDefault >>
    ELSE << preventDefault,
            IF p.video.currentTime >= SeekStep
            THEN Call("seek", "", p.video.currentTime - SeekStep)
            ELSE Call("seek", "", 0),
            Call("setAutoHide", "", 0) >>

\* Mutant: 'd' compares with <= and so seeks to the very end of the video.
caseD_inclusive(p) ==
    IF p.options.live
    THEN << preventDefault >>
    ELSE <<preventDefault>>
         \o (IF p.video.duration # 0 /\ p.video.currentTime + SeekStep <= p.video.duration
             THEN << Call("seek", "", p.video.currentTime + SeekStep) >>
             ELSE IF p.video.duration # 0
             THEN << Call("seek", "", p.video.duration - OneSecond) >>
             ELSE << >>)
         \o << Call("setAutoHide", "", 0) >>

caseD(p) ==
    IF p.options.live
    THEN << preventDefault >>
    ELSE <<preventDefault>>
         \o (IF p.video.duration # 0 /\ p.video.currentTime + SeekStep < p.video.duration
             THEN << Call("seek", "", p.video.currentTime + SeekStep) >>
             ELSE IF p.video.duration # 0
             THEN << Call("seek", "", p.video.duration - OneSecond) >>
             ELSE << >>)
         \o << Call("setAutoHide", "", 0) >>

\* 'f' with scope "browser", 'w' with scope "web"
\* Mutant: the state of browser fullscreen decides the direction for both scopes.
caseFullScreen_browserState(p, scope) ==
    IF p.fullScreen["browser"]
    THEN << preventDefault, Call("cancel", scope, 0) >>
    ELSE << preventDefault, Call("request", scope, 0) >>

caseFullScreen(p, scope) ==
    IF p.fullScreen[scope]
    THEN << preventDefault, Call("cancel", scope, 0) >>
    ELSE << preventDefault, Call("request", scope, 0) >>

\* video.muted = false is Call("muted", "", 0), video.muted = true is Call("muted", "", 1)
caseM(p) ==
    IF p.video.muted
    THEN << preventDefault, Call("muted", "", 0), Call("notice", "Unmuted", 0) >>
    ELSE << preventDefault, Call("muted", "", 1), Call("notice", "Muted", 0) >>

\* Mutant: the digit passed as the percentage, without the factor 10.
caseDigit_unscaled(p, lowerKey) ==
    IF ~p.options.live
    THEN <<preventDefault>> \o seekToPercent(p, parseInt(lowerKey))
    ELSE << preventDefault >>

\* Mutant: the digit rule without its live gate.
caseDigit_ungated(p, lowerKey) ==
    <<preventDefault>> \o seekToPercent(p, parseInt(lowerKey) * 10)

caseDigit(p, lowerKey) ==
    IF ~p.options.live
    THEN <<preventDefault>> \o seekToPercent(p, parseInt(lowerKey) * 10)
    ELSE << preventDefault >>

handleLetterKeys(e, p, key) ==
    LET lowerKey == toLowerCase(key)
    IN  CASE lowerKey = "a" -> caseA(p)
          [] lowerKey = "d" -> caseD(p)
          [] lowerKey = "f" -> caseFullScreen(p, "browser")
          [] lowerKey = "w" -> caseFullScreen(p, "web")
          [] lowerKey = "m" -> caseM(p)
          [] lowerKey \in {"+", "="} -> <<preventDefault>> \o changeSpeed(p, SpeedStep)
          [] lowerKey = "-" -> <<preventDefault>> \o changeSpeed(p, 0 - SpeedStep)
          [] lowerKey \in Digits -> caseDigit(p, lowerKey)
          [] OTHER -> << >>

keyCodeSwitch(e, p) ==
    CASE e.keyCode = KeySpace -> caseSpace
      [] e.keyCode = KeyLeft -> caseLeft(p)
      [] e.keyCode = KeyRight -> caseRight(p)
      [] e.keyCode = KeyUp -> caseUp(p)
      [] e.keyCode = KeyDown -> caseDown(p)
      [] e.keyCode = KeyEnter -> caseEnter(e)
      [] OTHER -> handleLetterKeys(e, p, e.key)

\* Mutant: a matching modifier rule does not return, the switch runs after it.
doHotKey_noReturn(e, p, ae) ==
    IF p.focus
    THEN IF isTyping(ae)
         THEN << >>
         ELSE modifierRules(e, p) \o keyCodeSwitch(e, p)
    ELSE << >>

\* Mutant: the modifier rules tried ahead of the focus test.
doHotKey_rulesBeforeFocus(e, p, ae) ==
    IF modifierRules(e, p) # << >> /\ ~isTyping(ae)
    THEN modifierRules(e, p)
    ELSE IF p.focus
    THEN IF isTyping(ae)
         THEN << >>
         ELSE keyCodeSwitch(e, p)
    ELSE << >>

doHotKey(e, p, ae) ==
    IF p.focus
    THEN IF isTyping(ae)
         THEN << >>
         ELSE IF modifierRules(e, p) # << >>
              THEN modifierRules(e, p)
              ELSE keyCodeSwitch(e, p)
    ELSE << >>

\* Mutant: the Escape listener behind the focus test of doHotKey.
cancelFullScreen_focusOnly(e, p) ==
    IF p.focus /\ e.keyCode = KeyEscape
    THEN IF p.fullScreen["web"]
         THEN << Call("cancel", "web", 0) >>
         ELSE << >>
    ELSE << >>

cancelFullScreen(e, p) ==
    IF e.keyCode = KeyEscape
    THEN IF p.fullScreen["web"]
         THEN << Call("cancel", "web", 0) >>
         ELSE << >>
    ELSE << >>

-----------------------------------------------------------------------------
(* The host player: what a call does to the player's state.  hotkey.js     *)
(* itself assigns video.muted; speed() sets video.playbackRate and         *)
(* fullScreen.request/cancel switch the scope's fullscreen state.  seek()  *)
(* and volume() only start a change the media element reports later        *)
(* (timeupdate, volumechange below), and toggle() does not touch a field   *)
(* read here.                                                              *)

playerSpeed(p, rate) == [p EXCEPT !.video.playbackRate = rate]

fullScreenRequest(p, scope) == [p EXCEPT !.fullScreen[scope] = TRUE]

fullScreenCancel(p, scope) == [p EXCEPT !.fullScreen[scope] = FALSE]

setMuted(p, value) == [p EXCEPT !.video.muted = value]

applyCall(p, c) ==
    CASE c.op = "speed" -> playerSpeed(p, c.num)
      [] c.op = "request" -> fullScreenRequest(p, c.str)
      [] c.op = "cancel" -> fullScreenCancel(p, c.str)
      [] c.op = "muted" -> setMuted(p, c.num = 1)
      [] OTHER -> p

RECURSIVE applyCalls(_, _)
applyCalls(p, calls) ==
    IF calls = << >>
    THEN p
    ELSE applyCalls(applyCall(p, Head(calls)), Tail(calls))

-----------------------------------------------------------------------------
(* State *)

doHotKeyHandler == "doHotKeyHandler"
cancelFullScreenHandler == "cancelFullScreenHandler"

\* Mutant: the constructor registers both listeners whatever options.hotkey is.
constructor_unconditional(hotkey) == {doHotKeyHandler, cancelFullScreenHandler}

\* The listeners the constructor registers, given options.hotkey.
constructor(hotkey) ==
    (IF hotkey THEN {doHotKeyHandler} ELSE {})
    \cup {cancelFullScreenHandler}

\* The listeners left by destroy(), given options.hotkey as destroy() reads it.
removeListeners(ls, hotkey) ==
    (IF hotkey THEN ls \ {doHotKeyHandler} ELSE ls)
    \ {cancelFullScreenHandler}

Idle == [phase |-> "idle"]

\* Elements that can hold the focus of the document.
Elements ==
    { [tagName |-> "DIV", contenteditable |-> "null"],
      [tagName |-> "INPUT", contenteditable |-> "null"],
      [tagName |-> "textarea", contenteditable |-> "null"],
      [tagName |-> "DIV", contenteditable |-> ""],
      [tagName |-> "DIV", contenteditable |-> "true"],
      [tagName |-> "DIV", contenteditable |-> "false"] }

Body == [tagName |-> "DIV", contenteditable |-> "null"]

\* <<currentTime, duration>> in ticks: duration unknown (0), 0.5 s and 10 s.
TimeSamples ==
    { <<0, 0>>, <<60, 0>>, <<140, 0>>,
      <<0, 10>>, <<10, 10>>,
      <<0, 200>>, <<60, 200>>, <<100, 200>>, <<140, 200>>, <<200, 200>> }

\* Rates another control of the player can have set, in thousandths.
RateSamples == { 100, 250, 1000, 1996, 2000, 3000 }

VolumeSamples == { 0, 7, 10 }

Player(focus, hotkey, live, time, rate, muted, web, browser, volume) ==
    [ focus |-> focus,
      options |-> [hotkey |-> hotkey, live |-> live],
      video |-> [currentTime |-> time[1], duration |-> time[2],
                 playbackRate |-> rate, muted |-> muted],
      fullScreen |-> [scope \in {"web", "browser"} |->
                         IF scope = "web" THEN web ELSE browser],
      volume |-> volume ]

\* The state right after `new HotKey(player)`, for a player drawn from the given sets.
Constructed(focuses, hotkeys, lives, elements, times, rates) ==
    /\ player \in { Player(f, h, l, t, r, FALSE, FALSE, FALSE, 7) :
                      f \in focuses, h \in hotkeys, l \in lives, t \in times, r \in rates }
    /\ activeElement \in elements
    /\ listeners = constructor(player.options.hotkey)
    /\ hotkeyAtConstruction = player.options.hotkey
    /\ destroyed = FALSE
    /\ dispatch = Idle
    /\ pendingBlobs = << >>
    /\ downloads = << >>

-----------------------------------------------------------------------------
(* Actions *)

\* document dispatches a keydown: the registered listeners run in the order the
\* constructor added them, each to completion, on the state the one before left.
keydown(e) ==
    /\ dispatch.phase = "idle"
    /\ LET hotKeyCalls == IF doHotKeyHandler \in listeners
                          THEN doHotKey(e, player, activeElement)
                          ELSE << >>
           p1 == applyCalls(player, hotKeyCalls)
           escapeCalls == IF cancelFullScreenHandler \in listeners
                          THEN cancelFullScreen(e, p1)
                          ELSE << >>
       IN  /\ player' = applyCalls(p1, escapeCalls)
           /\ dispatch' = [phase |-> "handled", event |-> e, before |-> player,
                           element |-> activeElement, listeners |-> listeners,
                           doHotKey |-> hotKeyCalls, cancelFullScreen |-> escapeCalls]
    /\ UNCHANGED <<activeElement, listeners, destroyed, hotkeyAtConstruction>>

\* The event loop is done with the keydown.
Return ==
    /\ dispatch.phase = "handled"
    /\ dispatch' = Idle
    /\ UNCHANGED <<player, activeElement, listeners, destroyed, hotkeyAtConstruction,
                 pendingBlobs, downloads>>

Destroy ==
    /\ dispatch.phase = "idle"
    /\ listeners' = removeListeners(listeners, player.options.hotkey)
    /\ destroyed' = TRUE
    /\ UNCHANGED <<player, activeElement, hotkeyAtConstruction, dispatch,
                 pendingBlobs, downloads>>

\* The page or the player's own code changes what the handlers read.
SetHotkeyOption ==
    /\ dispatch.phase = "idle"
    /\ player' = [player EXCEPT !.options.hotkey = ~player.options.hotkey]
    /\ UNCHANGED <<activeElement, listeners, destroyed, hotkeyAtConstruction, dispatch,
                 pendingBlobs, downloads>>

FocusChange ==
    /\ dispatch.phase = "idle"
    /\ player' = [player EXCEPT !.focus = ~player.focus]
    /\ UNCHANGED <<activeElement, listeners, destroyed, hotkeyAtConstruction, dispatch,
                 pendingBlobs, downloads>>

activeElementChange(elements) ==
    /\ dispatch.phase = "idle"
    /\ activeElement' \in elements \ {activeElement}
    /\ UNCHANGED <<player, listeners, destroyed, hotkeyAtConstruction, dispatch,
                 pendingBlobs, downloads>>

timeupdate(times) ==
    /\ dispatch.phase = "idle"
    /\ \E t \in times :
         /\ <<player.video.currentTime, player.video.duration>> # t
         /\ player' = [player EXCEPT !.video.currentTime = t[1], !.video.duration = t[2]]
    /\ UNCHANGED <<activeElement, listeners, destroyed, hotkeyAtConstruction, dispatch,
                 pendingBlobs, downloads>>

ratechange(rates) ==
    /\ dispatch.phase = "idle"
    /\ \E r \in rates \ {player.video.playbackRate} :
         player' = [player EXCEPT !.video.playbackRate = r]
    /\ UNCHANGED <<activeElement, listeners, destroyed, hotkeyAtConstruction, dispatch,
                 pendingBlobs, downloads>>

\* The user toggles a fullscreen scope with the player's own buttons.
FullScreenButton ==
    /\ dispatch.phase = "idle"
    /\ \E scope \in {"web", "browser"} :
         player' = IF player.fullScreen[scope]
                   THEN fullScreenCancel(player, scope)
                   ELSE fullScreenRequest(player, scope)
    /\ UNCHANGED <<activeElement, listeners, destroyed, hotkeyAtConstruction, dispatch,
                 pendingBlobs, downloads>>

volumechange(volumes) ==
    /\ dispatch.phase = "idle"
    /\ \E v \in volumes \ {player.volume} :
         player' = [player EXCEPT !.volume = v]
    /\ UNCHANGED <<activeElement, listeners, destroyed, hotkeyAtConstruction, dispatch,
                 pendingBlobs, downloads>>

\* canvas.toBlob(callback) of the calls: each puts a callback in the encoder's
\* hands, closed over `time` and `timestamp` of its takeScreenshot call.
toBlob(calls, p) ==
    LET requests == SelectSeq(calls, LAMBDA c : c.op = "toBlob")
    IN  [ i \in 1..Len(requests) |->
            [time |-> p.video.currentTime, timestamp |-> requests[i].num] ]

\* The keydown's toBlob callbacks wait for the encoder.
toBlobQueued ==
    /\ pendingBlobs' = pendingBlobs \o toBlob(dispatch'.doHotKey, player)
    /\ UNCHANGED downloads

\* The encoder is left out: what it holds and delivers is not followed.
toBlobDropped == UNCHANGED <<pendingBlobs, downloads>>

\* The encoder is done with one of the canvases, whichever, and its callback
\* runs between two events: the link is clicked with the file name it builds.
ToBlobCallback ==
    /\ dispatch.phase = "idle"
    /\ \E i \in 1..Len(pendingBlobs) :
         /\ downloads' = Append(downloads, toBlobCallback(pendingBlobs[i], player))
         /\ pendingBlobs' = SubSeq(pendingBlobs, 1, i - 1)
                               \o SubSeq(pendingBlobs, i + 1, Len(pendingBlobs))
    /\ UNCHANGED <<player, activeElement, listeners, destroyed, hotkeyAtConstruction,
                   dispatch>>

-----------------------------------------------------------------------------
(* Specifications *)

\* How many speed steps away from 1.0 the rate may be taken by the keys.
MaxRateDrift == 1

RateWithin(p, steps) ==
    /\ p.video.playbackRate >= NormalRate - steps * SpeedStep
    /\ p.video.playbackRate <= NormalRate + steps * SpeedStep

\* Spec: every key on every focus, active element, live flag and fullscreen state.
Init == Constructed(BOOLEAN, BOOLEAN, BOOLEAN, Elements, {<<0, 0>>, <<60, 200>>}, {NormalRate})

Keydown ==
    \E e \in KeyEvents : keydown(e) /\ RateWithin(player', MaxRateDrift) /\ toBlobDropped

ActiveElementChange == activeElementChange(Elements)

Next ==
    \/ Keydown
    \/ Return
    \/ FocusChange
    \/ ActiveElementChange
    \/ FullScreenButton
    \/ Destroy

Spec == Init /\ [][Next]_vars

\* SpecSeek: the seeking keys on every sampled currentTime and duration.
InitSeek == Constructed({TRUE}, {TRUE}, BOOLEAN, {Body}, {<<0, 0>>}, {NormalRate})

TimeUpdate == timeupdate(TimeSamples)

NextSeek ==
    \/ Keydown
    \/ Return
    \/ TimeUpdate

SpecSeek == InitSeek /\ [][NextSeek]_vars

\* SpecSpeed: the speed keys from every rate the keys and the samples reach.
InitSpeed == Constructed({TRUE}, {TRUE}, {FALSE}, {Body}, {<<60, 200>>}, {NormalRate})

KeydownAnyRate == \E e \in KeyEvents : keydown(e) /\ toBlobDropped

RateChange == ratechange(RateSamples)

VolumeChange == volumechange(VolumeSamples)

NextSpeed ==
    \/ KeydownAnyRate
    \/ Return
    \/ RateChange
    \/ VolumeChange

SpecSpeed == InitSpeed /\ [][NextSpeed]_vars

\* SpecLifecycle: construction, option changes and destroy(), with keys in between.
InitLifecycle == Constructed(BOOLEAN, BOOLEAN, {FALSE}, {Body}, {<<60, 200>>}, {NormalRate})

NextLifecycle ==
    \/ Keydown
    \/ Return
    \/ FocusChange
    \/ FullScreenButton
    \/ SetHotkeyOption
    \/ Destroy

SpecLifecycle == InitLifecycle /\ [][NextLifecycle]_vars

\* SpecCapture: captures, seeks and the playback clock against the encoder.
\* How many captures are followed from request to download.
MaxCaptures == 2

\* <<currentTime, duration>>: 3 s, 125.4 s, 1 h 2 min 5 s, of 1 h 10 min.
CaptureTimes == { <<60, 84000>>, <<2508, 84000>>, <<74500, 84000>> }

CaptureEvents == { e \in KeyEvents : e.key \in {"s", "S", "ArrowRight", "5", "a"} }

InitCapture == Constructed({TRUE}, {TRUE}, {FALSE}, {Body}, {<<2508, 84000>>}, {NormalRate})

KeydownCapture ==
    \E e \in CaptureEvents :
        /\ keydown(e)
        /\ toBlobQueued
        /\ Len(pendingBlobs') + Len(downloads') <= MaxCaptures

TimeUpdateCapture == timeupdate(CaptureTimes)

NextCapture ==
    \/ KeydownCapture
    \/ Return
    \/ TimeUpdateCapture
    \/ ToBlobCallback

SpecCapture == InitCapture /\ [][NextCapture]_vars

-----------------------------------------------------------------------------
(* What the properties read of a dispatched keydown *)

Handled == dispatch.phase = "handled"

\* The calls of both listeners, in the order they were made.
AllCalls == dispatch.doHotKey \o dispatch.cancelFullScreen

CallsOf(calls, ops) == { i \in 1..Len(calls) : calls[i].op \in ops }

Prevented == CallsOf(dispatch.doHotKey, {"preventDefault"}) # {}

MutatingOps ==
    {"toggle", "seek", "volume", "speed", "muted", "request", "cancel", "takeScreenshot"}

\* doHotKey was registered for the keydown and its guard let the event through.
Eligible ==
    /\ doHotKeyHandler \in dispatch.listeners
    /\ dispatch.before.focus
    /\ dispatch.element.tagName \notin {"INPUT", "input", "TEXTAREA", "textarea"}
    /\ dispatch.element.contenteditable \notin {"", "true"}

LowerKey == toLowerCase(dispatch.event.key)

-----------------------------------------------------------------------------
(* C1 *)

\* C1: while options.live is true no keydown, of whatever key and modifiers and in
\* whatever player state, makes a call to player.seek.
C1_NoSeekWhileLive ==
    (Handled /\ dispatch.before.options.live) => CallsOf(AllCalls, {"seek"}) = {}

\* A seeking key reached its rule in live mode: the default was suppressed, no seek made.
C1_Witness ==
    /\ Handled
    /\ Eligible
    /\ dispatch.before.options.live
    /\ dispatch.before.video.duration # 0
    /\ dispatch.event.key = "7"
    /\ ~dispatch.event.ctrlKey
    /\ dispatch.doHotKey = <<preventDefault>>

-----------------------------------------------------------------------------
(* C2 *)

SeekTimes == { AllCalls[i].num : i \in CallsOf(AllCalls, {"seek"}) }

-----------------------------------------------------------------------------
(* C3 *)

SpeedRates == { AllCalls[i].num : i \in CallsOf(AllCalls, {"speed"}) }

\* C3: whatever the rate before and whatever speed keys came earlier, the rate
\* passed to player.speed is within [0.25, 2.0] and a whole number of hundredths.
C3_SpeedInRange ==
    Handled =>
        \A r \in SpeedRates :
            /\ r >= MinRate
            /\ r <= MaxRate
            /\ r % 10 = 0

\* A speed key pressed at a rate that is off the hundredths and within a step of
\* the upper limit: the rate set is the limit.
C3_Witness ==
    /\ Handled
    /\ LowerKey = "x"
    /\ dispatch.event.ctrlKey
    /\ dispatch.before.video.playbackRate = 1996
    /\ SpeedRates = {MaxRate}

-----------------------------------------------------------------------------
(* C4 *)

CtrlShiftX ==
    /\ Handled
    /\ Eligible
    /\ dispatch.event.ctrlKey
    /\ dispatch.event.shiftKey
    /\ LowerKey = "x"

\* C4 as stated: Ctrl+Shift+X (either case of x) on an eligible keydown resets the
\* speed, player.speed(1.0), and does not change it by a step.
C4_CtrlShiftXResetsSpeed ==
    CtrlShiftX => dispatch.doHotKey = << preventDefault, Call("speed", "", NormalRate) >>

\* C4 amended: Ctrl+Shift+X (either case of x) on an eligible keydown is taken by the
\* Ctrl+X rule: one call of player.speed, with the rate before plus 0.05, not 1.0.
C4_CtrlShiftXChangesSpeed ==
    CtrlShiftX =>
        dispatch.doHotKey =
            << preventDefault,
               Call("speed", "", dispatch.before.video.playbackRate + SpeedStep) >>

\* Ctrl+Shift+X with the upper-case key, at a rate other than 0.95: the rate set is
\* not 1.0.
C4_Witness ==
    /\ CtrlShiftX
    /\ dispatch.event.key = "X"
    /\ dispatch.before.video.playbackRate = NormalRate
    /\ SpeedRates = {NormalRate + SpeedStep}

-----------------------------------------------------------------------------
(* C5 *)

Mutations(calls) == Cardinality(CallsOf(calls, MutatingOps))

\* C5 as stated: one keydown, the work of both listeners counted together, makes at
\* most one player-mutating call.
C5_AtMostOneMutation == Handled => Mutations(AllCalls) <= 1

\* C5 amended: each listener makes at most one player-mutating call for a keydown;
\* the two together make two exactly when doHotKey has a mutating match on a
\* keyCode-27 keydown in web fullscreen (Ctrl+Shift+Escape: speed(1.0), then
\* fullScreen.cancel('web')), and at most one for every other keydown.
C5_AtMostOneMutationPerListener ==
    Handled =>
        /\ Mutations(dispatch.doHotKey) <= 1
        /\ Mutations(dispatch.cancelFullScreen) <= 1
        /\ Mutations(AllCalls) = 2 =>
              /\ dispatch.event.keyCode = KeyEscape
              /\ dispatch.event.ctrlKey
              /\ dispatch.event.shiftKey
              /\ dispatch.before.fullScreen["web"]
              /\ AllCalls = << preventDefault, Call("speed", "", NormalRate),
                               Call("cancel", "web", 0) >>

\* Ctrl+Shift+Escape in web fullscreen: the speed is reset and the fullscreen left.
C5_Witness ==
    /\ Handled
    /\ dispatch.event.key = "Escape"
    /\ dispatch.event.ctrlKey
    /\ dispatch.event.shiftKey
    /\ Mutations(dispatch.doHotKey) = 1
    /\ Mutations(dispatch.cancelFullScreen) = 1

-----------------------------------------------------------------------------
(* C6 *)

\* The dispatch rules 1-6 as the specification lists them, on the event alone.
MatchesRule(e) ==
    \/ e.ctrlKey /\ toLowerCase(e.key) \in {"x", "z"}
    \/ e.ctrlKey /\ e.shiftKey
    \/ e.shiftKey /\ toLowerCase(e.key) = "s"
    \/ e.keyCode \in {KeySpace, KeyLeft, KeyRight, KeyUp, KeyDown}
    \/ e.keyCode = KeyEnter /\ e.location = LocationNumpad
    \/ toLowerCase(e.key) \in {"a", "d", "f", "w", "m", "+", "=", "-"} \cup Digits

\* C6: on an eligible keydown preventDefault is called if and only if the event
\* matches one of the rules 1-6, also when the matched action is gated to nothing;
\* an event that matches no rule gets no call at all from the dispatcher.
C6_PreventDefaultIffMatch ==
    (Handled /\ Eligible) =>
        /\ Prevented <=> MatchesRule(dispatch.event)
        /\ ~MatchesRule(dispatch.event) => dispatch.doHotKey = << >>

\* A digit with the duration unknown: suppressed, and nothing else done.
C6_Witness ==
    /\ Handled
    /\ Eligible
    /\ ~dispatch.before.options.live
    /\ dispatch.before.video.duration = 0
    /\ dispatch.event.key = "9"
    /\ ~dispatch.event.ctrlKey
    /\ dispatch.doHotKey = <<preventDefault>>

-----------------------------------------------------------------------------
(* C7 *)

\* The conditions of the claim on the keydown being handled.
Ineligible ==
    \/ ~dispatch.before.focus
    \/ dispatch.element.tagName \in {"INPUT", "input", "TEXTAREA", "textarea"}
    \/ dispatch.element.contenteditable \in {"", "true"}

\* C7: without focus, or with an INPUT, a TEXTAREA or a contenteditable ('' or
\* 'true') element active, doHotKey makes no call for any key, preventDefault
\* included, and the Escape listener still leaves web fullscreen on Escape.
C7_IneligibleNoDispatch ==
    (Handled /\ Ineligible) =>
        /\ dispatch.doHotKey = << >>
        /\ ( /\ cancelFullScreenHandler \in dispatch.listeners
             /\ dispatch.event.keyCode = KeyEscape
             /\ dispatch.before.fullScreen["web"] )
           => dispatch.cancelFullScreen = << Call("cancel", "web", 0) >>

\* Escape while typing in a textarea, the player focused and in web fullscreen.
C7_Witness ==
    /\ Handled
    /\ doHotKeyHandler \in dispatch.listeners
    /\ dispatch.before.focus
    /\ dispatch.element.tagName = "textarea"
    /\ dispatch.event.key = "Escape"
    /\ dispatch.doHotKey = << >>
    /\ dispatch.cancelFullScreen = << Call("cancel", "web", 0) >>

-----------------------------------------------------------------------------
(* C8 *)

\* C8: until destroy(), every keydown with keyCode 27 that arrives in web fullscreen
\* gets fullScreen.cancel('web') from the Escape listener, whatever the focus, the
\* active element and options.hotkey; the Escape listener makes no other call, and
\* none when the key is not 27 or the player is not in web fullscreen.
C8_EscapeLeavesWebFullScreen ==
    Handled =>
        /\ ( /\ ~destroyed
             /\ dispatch.event.keyCode = KeyEscape
             /\ dispatch.before.fullScreen["web"] )
           => dispatch.cancelFullScreen = << Call("cancel", "web", 0) >>
        /\ dispatch.cancelFullScreen \in { << >>, << Call("cancel", "web", 0) >> }
        /\ ( \/ dispatch.event.keyCode # KeyEscape
             \/ ~dispatch.before.fullScreen["web"] )
           => dispatch.cancelFullScreen = << >>

\* Escape in web and browser fullscreen, hotkeys off and the player without focus:
\* web fullscreen is left, browser fullscreen stays.
C8_Witness ==
    /\ Handled
    /\ ~destroyed
    /\ ~hotkeyAtConstruction
    /\ ~dispatch.before.focus
    /\ dispatch.event.key = "Escape"
    /\ dispatch.before.fullScreen["browser"]
    /\ dispatch.cancelFullScreen = << Call("cancel", "web", 0) >>
    /\ player.fullScreen["browser"]
    /\ ~player.fullScreen["web"]

-----------------------------------------------------------------------------
(* C9 *)

\* C9: from construction to destroy() the Escape listener is registered, and the
\* dispatcher listener is registered exactly when options.hotkey was true at
\* construction; with hotkeys off at construction doHotKey never runs, and all a
\* keydown can cause is the Escape exit from web fullscreen.
C9_ListenersAfterConstruction ==
    /\ ~destroyed =>
          /\ cancelFullScreenHandler \in listeners
          /\ doHotKeyHandler \in listeners <=> hotkeyAtConstruction
    /\ (Handled /\ ~hotkeyAtConstruction) =>
          /\ dispatch.doHotKey = << >>
          /\ AllCalls \in { << >>, << Call("cancel", "web", 0) >> }

\* Hotkeys off at construction and switched on afterwards: an eligible Space still
\* does nothing.
C9_Witness ==
    /\ Handled
    /\ ~destroyed
    /\ ~hotkeyAtConstruction
    /\ dispatch.before.options.hotkey
    /\ dispatch.before.focus
    /\ dispatch.event.key = " "
    /\ AllCalls = << >>

-----------------------------------------------------------------------------
(* C10 *)

\* C10: once destroy() has returned neither listener is registered, whatever
\* happened to options.hotkey since the construction, and so no later keydown
\* makes any call; a further destroy() changes nothing.
C10_DestroyRemovesBothListeners ==
    destroyed =>
        /\ listeners = {}
        /\ Handled => AllCalls = << >>

-----------------------------------------------------------------------------
(* C11 *)

\* The keydown reached a rule that raises (dir = 1) or lowers (dir = -1) the speed.
SpeedKey(dir) ==
    /\ Handled
    /\ Eligible
    /\ \/ dispatch.event.ctrlKey /\ LowerKey = (IF dir = 1 THEN "x" ELSE "z")
       \/ /\ ~(dispatch.event.ctrlKey /\ dispatch.event.shiftKey)
          /\ LowerKey \in (IF dir = 1 THEN {"+", "="} ELSE {"-"})

\* C11: the clamp holds the rate at its limits: a speed-up key at rate 2.0 passes
\* 2.0 to player.speed and leaves the rate at 2.0, a slow-down key at rate 0.25
\* passes 0.25 and leaves it at 0.25, so that repeated presses stay at the limit.
C11_ClampIsFixedAtLimits ==
    /\ (SpeedKey(1) /\ dispatch.before.video.playbackRate = MaxRate) =>
          /\ SpeedRates = {MaxRate}
          /\ player.video.playbackRate = MaxRate
    /\ (SpeedKey(-1) /\ dispatch.before.video.playbackRate = MinRate) =>
          /\ SpeedRates = {MinRate}
          /\ player.video.playbackRate = MinRate

\* '-' pressed at rate 0.25.
C11_Witness ==
    /\ SpeedKey(-1)
    /\ dispatch.event.key = "-"
    /\ dispatch.before.video.playbackRate = MinRate
    /\ player.video.playbackRate = MinRate

-----------------------------------------------------------------------------
(* C12 *)

\* The keydown reached the rule of a letter, symbol or digit key: eligible, and not
\* taken by the Ctrl+Shift rule.
LetterRule(keys) ==
    /\ Handled
    /\ Eligible
    /\ ~(dispatch.event.ctrlKey /\ dispatch.event.shiftKey)
    /\ LowerKey \in keys

\* The digit of a digit key, from its keyCode.
DigitOf(e) == e.keyCode - 48

\* C12: a digit key n with live false and a known duration D makes exactly one seek,
\* to D * (n * 10) / 100, which lies in [0, D], and the notice 'Seek: <n*10>%'; with
\* the duration unknown it makes neither a seek nor a notice.
C12_DigitSeeksToPercent ==
    (LetterRule(Digits) /\ ~dispatch.before.options.live) =>
        LET D == dispatch.before.video.duration
            n == DigitOf(dispatch.event)
        IN  IF D # 0
            THEN /\ Len(dispatch.doHotKey) = 3
                 /\ dispatch.doHotKey[1] = preventDefault
                 /\ dispatch.doHotKey[2].op = "seek"
                 /\ dispatch.doHotKey[2].num * 100 = D * (n * 10)
                 /\ dispatch.doHotKey[2].num >= 0
                 /\ dispatch.doHotKey[2].num <= D
                 /\ dispatch.doHotKey[3] = Call("notice", "Seek", n * 10)
            ELSE CallsOf(AllCalls, {"seek", "notice"}) = {}

\* '7' on a duration of 10 s: a seek to 7 s and the notice of 70%.
C12_Witness ==
    /\ LetterRule({"7"})
    /\ ~dispatch.before.options.live
    /\ dispatch.before.video.duration = 200
    /\ SeekTimes = {140}
    /\ Call("notice", "Seek", 70) \in { AllCalls[i] : i \in 1..Len(AllCalls) }

-----------------------------------------------------------------------------
(* C13 *)

\* C13: with live false, 'a' seeks to t - 5 when t >= 5 and to 0 otherwise; 'd' seeks
\* to t + 5 when the duration D is known and t + 5 < D, to D - 1 when D is known and
\* t + 5 >= D, and makes no seek when D is unknown.
C13_LetterSeekTargets ==
    LET t == dispatch.before.video.currentTime
        D == dispatch.before.video.duration
    IN  /\ (LetterRule({"a"}) /\ ~dispatch.before.options.live) =>
              SeekTimes = { IF t >= SeekStep THEN t - SeekStep ELSE 0 }
        /\ (LetterRule({"d"}) /\ ~dispatch.before.options.live) =>
              SeekTimes = IF D = 0 THEN {}
                          ELSE IF t + SeekStep < D THEN {t + SeekStep}
                          ELSE {D - OneSecond}

\* 'd' pressed exactly 5 s before the end of a 10 s video: the seek goes to 9 s.
C13_Witness ==
    /\ LetterRule({"d"})
    /\ ~dispatch.before.options.live
    /\ dispatch.before.video.currentTime = 100
    /\ dispatch.before.video.duration = 200
    /\ SeekTimes = {180}

-----------------------------------------------------------------------------
(* C14 *)

\* A Shift+S keydown, Ctrl not held, delivered to doHotKey while no text is typed.
ShiftS ==
    /\ Handled
    /\ doHotKeyHandler \in dispatch.listeners
    /\ dispatch.element.tagName \notin {"INPUT", "input", "TEXTAREA", "textarea"}
    /\ dispatch.element.contenteditable \notin {"", "true"}
    /\ dispatch.event.shiftKey
    /\ ~dispatch.event.ctrlKey
    /\ LowerKey = "s"

CaptureCalls == CallsOf(dispatch.doHotKey, {"takeScreenshot"})

ScreenshotNotices ==
    { i \in 1..Len(dispatch.doHotKey) :
        dispatch.doHotKey[i].op = "notice" /\ dispatch.doHotKey[i].str = "Screenshot" }

\* C14 as stated: Shift+S takes the screenshot and gives its notice whether
\* player.focus is true or false.
C14_CaptureWhateverFocus ==
    ShiftS => (CaptureCalls # {} /\ ScreenshotNotices # {})

\* C14 amended: the capture is behind the focus test like every other rule: Shift+S
\* takes the screenshot and gives its notice when player.focus is true, and makes
\* no call at all when player.focus is false.
C14_CaptureOnlyWithFocus ==
    ShiftS =>
        IF dispatch.before.focus
        THEN Cardinality(CaptureCalls) = 1 /\ Cardinality(ScreenshotNotices) = 1
        ELSE dispatch.doHotKey = << >>

\* Shift+S with the dispatcher registered and the player out of focus: nothing.
C14_Witness ==
    /\ ShiftS
    /\ ~dispatch.before.focus
    /\ dispatch.event.key = "S"
    /\ AllCalls = << >>

-----------------------------------------------------------------------------------------------------------------------------------------------------
(* C15 *)

\* The keydown being dispatched made a capture request.
CaptureRequested == Handled /\ CaptureCalls # {}

\* C15: a capture request gives its notice within the keydown, while its encoding
\* callback has not run, with the HH-MM-SS of the playback time at the request;
\* and every file a callback downloads, whenever the callback runs and whatever
\* keys and clock updates come between, is named by the HH-MM-SS of the playback
\* time at its own request, as its notice was.
C15_CaptureNamedAtRequest ==
    /\ CaptureRequested =>
          LET time == dispatch.before.video.currentTime
          IN  /\ dispatch.doHotKey =
                    << preventDefault,
                       Call("takeScreenshot", "", 0),
                       Call("toBlob", "", Timestamp(time)),
                       Call("notice", "Screenshot", Timestamp(time)) >>
              /\ pendingBlobs # << >>
              /\ pendingBlobs[Len(pendingBlobs)] =
                    [time |-> time, timestamp |-> Timestamp(time)]
    /\ \A i \in 1..Len(pendingBlobs) :
          pendingBlobs[i].timestamp = Timestamp(pendingBlobs[i].time)
    /\ \A i \in 1..Len(downloads) :
          downloads[i].download = Timestamp(downloads[i].requestedAt)
    /\ \A i \in 1..Len(downloads) :
          downloads[i].requestedAt = 2508 => downloads[i].download = 205

\* A capture at 125.4 s and a later one at 1:02:05; the later one's file came
\* first, the earlier one's came as screenshot_00-02-05.png when the clock was
\* at neither time.
C15_Witness ==
    /\ dispatch.phase = "idle"
    /\ pendingBlobs = << >>
    /\ Len(downloads) = 2
    /\ downloads[1] = [download |-> 10205, requestedAt |-> 74500]
    /\ downloads[2] = [download |-> 205, requestedAt |-> 2508]
    /\ player.video.currentTime = 60

-----
(* C16 *)

\* An eligible Enter keydown that the Ctrl+Shift rule does not take.
EnterKey ==
    /\ Handled
    /\ Eligible
    /\ ~(dispatch.event.ctrlKey /\ dispatch.event.shiftKey)
    /\ dispatch.event.keyCode = KeyEnter

\* C16: ResetSpeed sets the rate to exactly 1.0 from every rate before, and Enter
\* triggers it only from the numeric keypad (location 3); Enter from elsewhere gets
\* no call at all, preventDefault and the letter rules included.
C16_ResetSpeedAndNumpadEnter ==
    /\ (EnterKey /\ dispatch.event.location = LocationNumpad) =>
          /\ dispatch.doHotKey = << preventDefault, Call("speed", "", NormalRate) >>
          /\ player.video.playbackRate = NormalRate
    /\ (EnterKey /\ dispatch.event.location # LocationNumpad) =>
          /\ dispatch.doHotKey = << >>
          /\ player = dispatch.before
    /\ ( /\ Handled
         /\ Eligible
         /\ dispatch.event.ctrlKey
         /\ dispatch.event.shiftKey
         /\ LowerKey \notin {"x", "z"} ) =>
          /\ SpeedRates = {NormalRate}
          /\ player.video.playbackRate = NormalRate

\* Numpad Enter at rate 2.0: the rate is 1.0 afterwards.
C16_Witness ==
    /\ EnterKey
    /\ dispatch.event.location = LocationNumpad
    /\ dispatch.before.video.playbackRate = MaxRate
    /\ player.video.playbackRate = NormalRate

-----------------------------------------------------------------------------
(* C17 *)

\* The event of the dispatch with both modifiers released.
Unmodified(e) == [e EXCEPT !.ctrlKey = FALSE, !.shiftKey = FALSE]

\* The calls doHotKey makes for the same key pressed with no modifier.
PlainCalls == doHotKey(Unmodified(dispatch.event), dispatch.before, dispatch.element)

\* C17: the modifier rules are decided first and the first match wins: Ctrl with
\* x or z only changes the speed, Ctrl+Shift with any other key only resets it,
\* Shift+S without Ctrl only takes the screenshot; the action of the same key
\* without the modifiers is not dispatched as well.
C17_ModifierRulesFirst ==
    (Handled /\ Eligible) =>
        /\ (dispatch.event.ctrlKey /\ LowerKey = "x") =>
              dispatch.doHotKey =
                  << preventDefault,
                     Call("speed", "",
                          newRate(dispatch.before.video.playbackRate, SpeedStep)) >>
        /\ (dispatch.event.ctrlKey /\ LowerKey = "z") =>
              dispatch.doHotKey =
                  << preventDefault,
                     Call("speed", "",
                          newRate(dispatch.before.video.playbackRate, 0 - SpeedStep)) >>
        /\ (dispatch.event.ctrlKey /\ dispatch.event.shiftKey
              /\ LowerKey \notin {"x", "z"}) =>
              dispatch.doHotKey = << preventDefault, Call("speed", "", NormalRate) >>
        /\ (dispatch.event.shiftKey /\ ~dispatch.event.ctrlKey /\ LowerKey = "s") =>
              /\ Mutations(dispatch.doHotKey) = 1
              /\ Cardinality(CaptureCalls) = 1
              /\ Head(dispatch.doHotKey) = preventDefault

\* Ctrl+Shift+Space while paused: the speed is reset and playback is not toggled,
\* though Space alone would toggle it.
C17_Witness ==
    /\ Handled
    /\ Eligible
    /\ dispatch.event.ctrlKey
    /\ dispatch.event.shiftKey
    /\ dispatch.event.keyCode = KeySpace
    /\ CallsOf(PlainCalls, {"toggle"}) # {}
    /\ CallsOf(dispatch.doHotKey, {"toggle"}) = {}
    /\ SpeedRates = {NormalRate}

-----------------------------------------------------------------------------
(* C18 *)

AutoHideCalls == CallsOf(dispatch.doHotKey, {"setAutoHide"})

RelativeSeekKey ==
    \/ dispatch.event.keyCode \in {KeyLeft, KeyRight}
    \/ LowerKey \in {"a", "d"}

\* C18: every setAutoHide call of a keydown comes after a player.seek call of the
\* same keydown, the key being Left, Right, 'a' or 'd', and never in live mode.
C18_AutoHideOnlyAfterSeek ==
    Handled =>
        /\ CallsOf(dispatch.cancelFullScreen, {"setAutoHide"}) = {}
        /\ \A i \in AutoHideCalls :
              /\ \E j \in 1..(i - 1) : dispatch.doHotKey[j].op = "seek"
              /\ RelativeSeekKey
              /\ ~dispatch.before.options.live

------------------------------------------------------------------------\* Every setAutoHide call without a seek before it is the one of 'd' pressed
\* while the duration is unknown.
C18_OnlyForwardKeyWithoutDuration ==
    (Handled /\ ~C18_AutoHideOnlyAfterSeek) =>
        /\ LowerKey = "d"
        /\ dispatch.before.video.duration = 0
        /\ ~dispatch.before.options.live
        /\ dispatch.doHotKey = << preventDefault, Call("setAutoHide", "", 0) >>

-----
(* C19 *)

OtherScope(scope) == IF scope = "browser" THEN "web" ELSE "browser"

ScopeOfKey == IF LowerKey = "f" THEN "browser" ELSE "web"

\* C19: 'f' cancels browser fullscreen when it is on and requests it otherwise,
\* 'w' does so for web fullscreen; neither issues a call for the other scope, and
\* the press inverts its own scope and leaves the other as it was (so that two
\* presses restore both).
C19_ScopesToggleIndependently ==
    LetterRule({"f", "w"}) =>
        LET scope == ScopeOfKey
            was == dispatch.before.fullScreen[scope]
        IN  /\ dispatch.doHotKey =
                  << preventDefault,
                     Call(IF was THEN "cancel" ELSE "request",
                          scope, 0) >>
            /\ \A i \in 1..Len(AllCalls) :
                  AllCalls[i].op \in {"cancel", "request"} =>
                      AllCalls[i].str = scope
            /\ player.fullScreen[scope] = ~was
            /\ player.fullScreen[OtherScope(scope)] =
                  dispatch.before.fullScreen[OtherScope(scope)]
            /\ applyCalls(player, doHotKey(dispatch.event, player, dispatch.element))
                   .fullScreen = dispatch.before.fullScreen

\* 'w' pressed in browser fullscreen with web fullscreen off: web goes on,
\* browser stays on.
C19_Witness ==
    /\ LetterRule({"w"})
    /\ dispatch.before.fullScreen["browser"]
    /\ ~dispatch.before.fullScreen["web"]
    /\ player.fullScreen["web"]
    /\ player.fullScreen["browser"]

-----------------------------------------------------------------------------
(* C20 *)

\* A modifier held that completes none of the modifier rules.
IdleModifier ==
    \/ /\ dispatch.event.ctrlKey
       /\ ~dispatch.event.shiftKey
       /\ LowerKey \notin {"x", "z"}
    \/ /\ dispatch.event.shiftKey
       /\ ~dispatch.event.ctrlKey
       /\ LowerKey # "s"

\* C20: with Ctrl alone on a key other than x/z, or Shift alone on a key other
\* than s, the keydown makes exactly the calls (preventDefault included) that the
\* same key makes with no modifier, and leaves the player in the same state.
C20_IdleModifierIgnored ==
    (Handled /\ Eligible /\ IdleModifier) =>
        /\ dispatch.doHotKey = PlainCalls
        /\ player =
              applyCalls(applyCalls(dispatch.before, PlainCalls),
                         dispatch.cancelFullScreen)

\* Ctrl+F outside fullscreen requests browser fullscreen, as F alone does.
C20_Witness ==
    /\ Handled
    /\ Eligible
    /\ IdleModifier
    /\ dispatch.event.ctrlKey
    /\ LowerKey = "f"
    /\ dispatch.doHotKey =
          << preventDefault, Call("request", "browser", 0) >>

=============================================================================
